---- MODULE Spec2Model ----
(***************************************************************************)
(* EagleTree: the FAST flash translation layer (src/FTLs/fast_ftl.cpp) and *)
(* the block manager (src/ssd_block_manager_parent.cpp).                   *)
(*                                                                         *)
(* Spec      the FAST FTL: write, read, write_to_log_block, block erase    *)
(* SpecRead  FtlImpl_Fast::read as a function of the mapping state         *)
(* SpecSeq   write_to_log_block while one sequential log is filled         *)
(* SpecMerge FtlImpl_Fast::random_merge as a function of the mapping state *)
(* SpecBM    the block manager: write arrival/outcome, erase outcome,      *)
(*           wear levelling, garbage collection, writes overlapping        *)
(* SpecWear  the block manager under a skewed workload, up to the wear     *)
(*           levelling trigger                                             *)
(* SpecGC    perform_gc over the candidate sets it can be handed           *)
(* SpecDie   get_free_die_with_shortest_IO_queue as a function of the      *)
(*           frontier pages, the registers and the finish times            *)
(***************************************************************************)
EXTENDS Integers, Sequences, FiniteSets, TLC

\* ------------------------------------------------------------------------
\* Geometry (configuration constants of the device, values of spec.md's
\* end-to-end scenarios) and the bounds of the model
\* ------------------------------------------------------------------------
BLOCK_SIZE == 4

PAGE_MAX_LOG == 2

\* logical blocks addressed by the FTL
NumLBA == 3

\* physical blocks handed out by the FTL's block allocator
NumPhysBlocks == 6

\* FTL calls (write, read, write_to_log_block) followed in one behaviour
MaxCalls == 4

\* write_to_log_block calls followed when one sequential log is filled
MaxFill == 5

LBAs == 0 .. (NumLBA - 1)

LogicalAddresses == 0 .. (NumLBA * BLOCK_SIZE - 1)

Offsets == 0 .. (BLOCK_SIZE - 1)

PhysBlocks == 0 .. (NumPhysBlocks - 1)

\* the "unmapped" / "empty" sentinel of data_list, pages[] and
\* sequential_logical_address
Unmapped == 0 - 1

\* an event whose physical address was never set by the FTL
NoAddress == 0 - 2

Min(S) == CHOOSE x \in S : \A y \in S : x <= y

\* ------------------------------------------------------------------------
\* FTL state
\* ------------------------------------------------------------------------
VARIABLES
    data_list,                  \* LBA_block -> linear address of its data block, or -1
    log_map,                    \* LBA_block -> LogPageBlock (partial)
    sequential_offset,
    sequential_logical_address,
    sequential_address,         \* linear address of the sequential log block
    pstate,                     \* block -> page -> "FREE" | "VALID" | "INVALID"
    pdata,                      \* block -> page -> logical address stored, or -1
    free_list,                  \* blocks the allocator can still hand out
    invalid_list,               \* blocks invalidated and waiting for their erase
    chain,                      \* events chained to the triggering event by the last routing step
    last,                       \* the last FTL call and what it did
    probe,                      \* the logical address whose writes are followed
    written,                    \* write() was called for probe
    latest,                     \* address the FTL gave to the latest write event of probe
    run,                        \* in-order fill of the sequential log since it was empty
    ftl_aborted,                \* an assertion of the FTL has failed
    calls,                      \* FTL calls made so far
    boot                        \* the constructor left sequential_logical_address = -1

ftlVars == <<data_list, log_map, sequential_offset, sequential_logical_address,
             sequential_address, pstate, pdata, free_list, invalid_list, chain,
             last, probe, written, latest, run, ftl_aborted, calls, boot>>

\* ------------------------------------------------------------------------
\* Block manager state (one package, one die)
\* ------------------------------------------------------------------------
VARIABLES
    bm_pages,                   \* block -> page -> "FREE" | "VALID" | "INVALID"
    erases_done,                \* block -> BLOCK_ERASES - erases_remaining (its age)
    num_free_pages,
    num_available_pages_for_new_writes,
    max_age,
    min_age,
    blocks_with_min_age,        \* set of blocks
    free_blocks,                \* age class -> stack of fully-free blocks
    free_block_pointers,        \* the append frontier of the die: [block, page]
    gc_candidates,              \* age class -> set of blocks
    in_flight,                  \* write events between their arrival and their outcome
    gc_writes,                  \* page -> scheduled (READ, WRITE) migration pairs not yet issued
    erase_events,               \* block -> scheduled ERASE events not yet executed
    logical_map,                \* logical page -> physical page holding it, or -1
    bm_aborted,                 \* an assertion of the block manager has failed
    failed_assertion            \* the assertion that stopped the program, or "none"

bmVars == <<bm_pages, erases_done, num_free_pages, num_available_pages_for_new_writes,
            max_age, min_age, blocks_with_min_age, free_blocks, free_block_pointers,
            gc_candidates, in_flight, gc_writes, erase_events, logical_map, bm_aborted,
            failed_assertion>>

\* ------------------------------------------------------------------------
\* What get_free_die_with_shortest_IO_queue reads, and what it returns
\* ------------------------------------------------------------------------
VARIABLES
    die_pointers,               \* channel -> die -> page of free_block_pointers[i][j]
    register_busy,              \* channel -> die -> Die::register_is_busy()
    die_finish_time,            \* channel -> die -> get_currently_executing_io_finish_time()
    channel_finish_time,        \* channel -> get_currently_executing_operation_finish_time()
    selected                    \* the Address returned by the last call

dieVars == <<die_pointers, register_busy, die_finish_time, channel_finish_time, selected>>

\* ------------------------------------------------------------------------
\* Block_manager_parent::get_free_die_with_shortest_IO_queue
\* ------------------------------------------------------------------------
\* channels (packages) and dies per channel of the device the write is
\* placed on, and the latest finish time drawn
NumChannels == 2

NumDies == 2

MaxTime == 2

Channels == 0 .. (NumChannels - 1)

Dies == 0 .. (NumDies - 1)

Times == 0 .. MaxTime

\* std::numeric_limits<double>::max()
DoubleMax == MaxTime + 1

\* Address(): no address (valid = NONE)
NoneAddress == [valid |-> "NONE", package |-> 0, die |-> 0, page |-> 0]

\* before the first call
NotCalled == [valid |-> "NOT_CALLED", package |-> 0, die |-> 0, page |-> 0]

\* the value of an uninitialised best_channel_id / best_die_id
Uninitialised == 0 - 1

\* the channel's finish time alone
ChannelTimeOnly(a, b) == a

\* std::max
MaxOf(a, b) == IF a >= b THEN a ELSE b

\* one iteration of the inner loop, for dies[i][j]
DieLoopBody(st, i, j) ==
    LET die_has_free_pages == die_pointers[i][j] < BLOCK_SIZE
        die_register_is_busy == register_busy[i][j]
        max == MaxOf(channel_finish_time[i], die_finish_time[i][j])
        earlier == die_finish_time[i][j] < st.earliest_die_finish_time
        die_with_earliest_finish_time ==
            IF earlier THEN j ELSE st.die_with_earliest_finish_time
        better == \/ max < st.shortest_time
                  \/ max = st.shortest_time /\ die_with_earliest_finish_time = j
    IN  IF ~(die_has_free_pages /\ ~die_register_is_busy) THEN st
        ELSE [can_write |-> TRUE,
              earliest_die_finish_time |->
                  IF earlier THEN die_finish_time[i][j] ELSE st.earliest_die_finish_time,
              die_with_earliest_finish_time |-> die_with_earliest_finish_time,
              best_channel_id |-> IF better THEN i ELSE st.best_channel_id,
              best_die_id |-> IF better THEN j ELSE st.best_die_id,
              shortest_time |-> IF better THEN max ELSE st.shortest_time]

\* the loops over dies[i][j], i outer and j inner; the per-channel locals
\* are reset when a new channel starts
RECURSIVE DieLoop(_, _, _)
DieLoop(st, i, j) ==
    IF i >= NumChannels THEN st
    ELSE IF j >= NumDies
    THEN DieLoop([st EXCEPT !.earliest_die_finish_time = DoubleMax,
                            !.die_with_earliest_finish_time = 0], i + 1, 0)
    ELSE DieLoop(DieLoopBody(st, i, j), i, j + 1)

\* get_free_die_with_shortest_IO_queue(dies)
get_free_die_with_shortest_IO_queue_of ==
    DieLoop([can_write |-> FALSE,
             earliest_die_finish_time |-> DoubleMax,
             die_with_earliest_finish_time |-> 0,
             best_channel_id |-> Uninitialised,
             best_die_id |-> Uninitialised,
             shortest_time |-> DoubleMax], 0, 0)

\* get_free_die_with_shortest_IO_queue()
get_free_die_with_shortest_IO_queue ==
    LET best_die == get_free_die_with_shortest_IO_queue_of
    IN  IF ~best_die.can_write THEN NoneAddress
        ELSE [valid |-> "PAGE",
              package |-> best_die.best_channel_id,
              die |-> best_die.best_die_id,
              page |-> die_pointers[best_die.best_channel_id][best_die.best_die_id]]

\* no die selection is followed
DieIdle ==
    /\ die_pointers = [i \in Channels |-> [j \in Dies |-> 0]]
    /\ register_busy = [i \in Channels |-> [j \in Dies |-> FALSE]]
    /\ die_finish_time = [i \in Channels |-> [j \in Dies |-> 0]]
    /\ channel_finish_time = [i \in Channels |-> 0]
    /\ selected = NotCalled

\* any frontier (pages left or not), register state and finish times
InitDie ==
    /\ die_pointers \in [Channels -> [Dies -> {0, BLOCK_SIZE}]]
    /\ register_busy \in [Channels -> [Dies -> BOOLEAN]]
    /\ die_finish_time \in [Channels -> [Dies -> Times]]
    /\ channel_finish_time \in [Channels -> Times]
    /\ selected = NotCalled

\* ------------------------------------------------------------------------
\* Address arithmetic
\* ------------------------------------------------------------------------
RECURSIVE ShiftLoop(_, _)
ShiftLoop(size, shift) ==
    IF size > 0 THEN ShiftLoop(size \div 2, shift + 1) ELSE shift

\* constructor: for (int size = BLOCK_SIZE/2; size > 0; addressShift++) size /= 2;
addressShift == ShiftLoop(BLOCK_SIZE \div 2, 0)

RECURSIVE Pow2(_)
Pow2(n) == IF n = 0 THEN 1 ELSE 2 * Pow2(n - 1)

\* event.get_logical_address() >> addressShift
LogicalBlockOf(la) == la \div Pow2(addressShift)

\* Address::set_linear_address: the page field of a linear address
PageOf(a) == a % BLOCK_SIZE

BlockOf(a) == a \div BLOCK_SIZE

BaseOf(b) == b * BLOCK_SIZE

ValidPhysical(a) == a >= 0 /\ BlockOf(a) \in PhysBlocks

\* get_state(address): page state of a physical linear address
get_state(a) == IF ValidPhysical(a) THEN pstate[BlockOf(a)][PageOf(a)] ELSE "NONE"

\* Controller::get_block_state
get_block_state(ps, b) ==
    IF \A p \in Offsets : ps[b][p] = "FREE" THEN "FREE"
    ELSE IF \A p \in Offsets : ps[b][p] = "INVALID" THEN "INACTIVE"
    ELSE IF \E p \in Offsets : ps[b][p] = "FREE" THEN "PARTIALLY_FREE"
    ELSE "ACTIVE"

\* Controller::issue: the controller accepts every translated event
ControllerIssue == "SUCCESS"

\* LogPageBlock(): every slot empty
NewLogPageBlock(addr) == [address |-> addr, pages |-> [o \in Offsets |-> Unmapped]]

\* ------------------------------------------------------------------------
\* FtlImpl_Fast::read
\* ------------------------------------------------------------------------
\* read with the data block consulted before the random log block
read_data_block_first(dl, lm, la) ==
    LET lookupBlock == LogicalBlockOf(la)
        page == PageOf(la)
        hasLog == lookupBlock \in DOMAIN lm
    IN  IF dl[lookupBlock] = Unmapped /\ hasLog /\ lm[lookupBlock].pages[page] = Unmapped
        THEN [status |-> "FAILURE", addr |-> NoAddress]
        ELSE IF dl[lookupBlock] # Unmapped \/ ~hasLog
        THEN [status |-> ControllerIssue,
              addr |-> dl[lookupBlock] + (la % BLOCK_SIZE)]
        ELSE [status |-> ControllerIssue,
              addr |-> lm[lookupBlock].address + lm[lookupBlock].pages[page]]

\* the result of read(event) for logical address la under mapping (dl, lm):
\* its status and the physical address the read event was issued to
read(dl, lm, la) ==
    LET lookupBlock == LogicalBlockOf(la)
        page == PageOf(la)
        hasLog == lookupBlock \in DOMAIN lm
    IN  IF dl[lookupBlock] = Unmapped /\ hasLog /\ lm[lookupBlock].pages[page] = Unmapped
        THEN [status |-> "FAILURE", addr |-> NoAddress]
        ELSE IF hasLog /\ lm[lookupBlock].pages[page] # Unmapped
        THEN [status |-> ControllerIssue,
              addr |-> lm[lookupBlock].address + lm[lookupBlock].pages[page]]
        ELSE [status |-> ControllerIssue,
              addr |-> dl[lookupBlock] + (la % BLOCK_SIZE)]

\* ------------------------------------------------------------------------
\* Block allocator and device, as the FTL uses them.  An FTL step is computed
\* on a record s of the fields it reads and writes:
\*   dl data_list, so/sla/sa the sequential log, ps/pd the pages,
\*   fl/il free and invalidated blocks, ch the chained events, ev the address
\*   set on the triggering event, switches/merges the calls made
\* ------------------------------------------------------------------------
FtlState ==
    [dl |-> data_list, so |-> sequential_offset, sla |-> sequential_logical_address,
     sa |-> sequential_address, ps |-> pstate, pd |-> pdata, fl |-> free_list,
     il |-> invalid_list, ch |-> <<>>, ev |-> NoAddress, switches |-> 0, merges |-> 0]

\* manager.get_free_block: base address of the next block of the free list
get_free_block(s) == BaseOf(Min(s.fl))

TakeFreeBlock(s) == [s EXCEPT !.fl = @ \ {Min(s.fl)}]

\* manager.invalidate(block address): the block's pages are invalid and the
\* block waits for its erase
invalidate(s, a) ==
    IF ValidPhysical(a)
    THEN [s EXCEPT !.ps[BlockOf(a)] = [p \in Offsets |-> "INVALID"],
                   !.il = @ \cup {BlockOf(a)}]
    ELSE s

\* manager.insert_events: "add erase events if necessary"; when the manager
\* finds it necessary the invalidated blocks are erased and free again
insert_events(s, necessary) ==
    IF necessary
    THEN [s EXCEPT !.ps = [b \in PhysBlocks |->
                              IF b \in s.il THEN [p \in Offsets |-> "FREE"] ELSE s.ps[b]],
                   !.pd = [b \in PhysBlocks |->
                              IF b \in s.il THEN [p \in Offsets |-> Unmapped] ELSE s.pd[b]],
                   !.fl = @ \cup s.il,
                   !.il = {}]
    ELSE s

\* controller.get_free_page(address): the first free page of the block
get_free_page(s, a) ==
    LET b == BlockOf(a)
        freePages == {p \in Offsets : s.ps[b][p] = "FREE"}
    IN  IF ValidPhysical(a) /\ freePages # {} THEN BaseOf(b) + Min(freePages) ELSE a

\* Device write_page at the address set on the event
write_page(s, a, la) ==
    IF a # NoAddress /\ ValidPhysical(a) /\ s.ps[BlockOf(a)][PageOf(a)] = "FREE"
    THEN [s EXCEPT !.ps[BlockOf(a)][PageOf(a)] = "VALID",
                   !.pd[BlockOf(a)][PageOf(a)] = la]
    ELSE s

\* ------------------------------------------------------------------------
\* FtlImpl_Fast::allocate_new_logblock
\* ------------------------------------------------------------------------
allocate_new_logblock(lm, logicalBlockAddress, addr) ==
    LET kept == IF Cardinality(DOMAIN lm) >= PAGE_MAX_LOG
                THEN lm     \* "killing ...": printed only, the merge is commented out
                ELSE lm
    IN  [l \in (DOMAIN kept) \cup {logicalBlockAddress} |->
            IF l = logicalBlockAddress THEN NewLogPageBlock(addr) ELSE kept[l]]

\* ------------------------------------------------------------------------
\* FtlImpl_Fast::switch_sequential
\* ------------------------------------------------------------------------
switch_sequential(s, logicalBlockAddress) ==
    LET s1 == IF s.dl[logicalBlockAddress] # Unmapped
              THEN invalidate(s, s.dl[logicalBlockAddress])
              ELSE s
    IN  [TakeFreeBlock(s1) EXCEPT
            !.dl[logicalBlockAddress] = s.sa,
            !.so = 0,
            !.sla = Unmapped,
            !.sa = get_free_block(s1),
            !.switches = @ + 1]

\* ------------------------------------------------------------------------
\* FtlImpl_Fast::merge_sequential
\* ------------------------------------------------------------------------
\* read source of page i taken from the data block first
MergeSequentialSourceDataFirst(s, logicalBlockAddress, i) ==
    IF s.dl[logicalBlockAddress] # Unmapped
    THEN s.dl[logicalBlockAddress] + i
    ELSE IF ValidPhysical(s.sa + i) /\ s.ps[BlockOf(s.sa + i)][PageOf(s.sa + i)] = "VALID"
    THEN s.sa + i
    ELSE NoAddress

\* read source of page i: the sequential block, else the data block, else none
MergeSequentialSource(s, logicalBlockAddress, i) ==
    IF ValidPhysical(s.sa + i) /\ s.ps[BlockOf(s.sa + i)][PageOf(s.sa + i)] = "VALID"
    THEN s.sa + i
    ELSE IF s.dl[logicalBlockAddress] # Unmapped
    THEN s.dl[logicalBlockAddress] + i
    ELSE NoAddress

RECURSIVE MergeSequentialChain(_, _, _, _)
MergeSequentialChain(s, logicalBlockAddress, newDataBlock, i) ==
    IF i >= BLOCK_SIZE THEN <<>>
    ELSE LET readAddress == MergeSequentialSource(s, logicalBlockAddress, i)
             rest == MergeSequentialChain(s, logicalBlockAddress, newDataBlock, i + 1)
         IN  IF readAddress = NoAddress THEN rest
             ELSE <<[type |-> "READ", address |-> readAddress],
                    [type |-> "WRITE", address |-> newDataBlock + i,
                     payload |-> readAddress]>> \o rest

merge_sequential(s, logicalBlockAddress, necessary) ==
    IF s.sla = Unmapped
    THEN [s EXCEPT !.merges = @ + 1]
    ELSE LET newDataBlock == get_free_block(s)
             events == MergeSequentialChain(s, logicalBlockAddress, newDataBlock, 0)
             s1 == invalidate(TakeFreeBlock(s), s.sa)
             s2 == IF s.dl[logicalBlockAddress] # Unmapped
                   THEN invalidate(s1, s.dl[logicalBlockAddress])
                   ELSE s1
         IN  insert_events([s2 EXCEPT !.dl[logicalBlockAddress] = newDataBlock,
                                      !.ch = @ \o events,
                                      !.merges = @ + 1],
                           necessary)

\* ------------------------------------------------------------------------
\* FtlImpl_Fast::dispose_logblock
\* ------------------------------------------------------------------------
dispose_logblock(lm, logicalBlockAddress) ==
    [l \in (DOMAIN lm) \ {logicalBlockAddress} |-> lm[l]]

\* ------------------------------------------------------------------------
\* FtlImpl_Fast::random_merge
\* ------------------------------------------------------------------------
\* read source of page i: the test reads the slot of the event's own page,
\* the address is built from slot i
RandomMergeSource(s, logBlock, logicalBlockAddress, la, i) ==
    IF logBlock.pages[PageOf(la)] # Unmapped
    THEN logBlock.address + logBlock.pages[i]
    ELSE IF s.dl[logicalBlockAddress] # Unmapped
    THEN s.dl[logicalBlockAddress] + i
    ELSE NoAddress

RECURSIVE RandomMergeChain(_, _, _, _, _, _)
RandomMergeChain(s, logBlock, logicalBlockAddress, la, newDataBlock, i) ==
    IF i >= BLOCK_SIZE THEN <<>>
    ELSE LET readAddress == RandomMergeSource(s, logBlock, logicalBlockAddress, la, i)
             rest == RandomMergeChain(s, logBlock, logicalBlockAddress, la,
                                      newDataBlock, i + 1)
         IN  IF readAddress = NoAddress THEN rest
             ELSE <<[type |-> "READ", address |-> readAddress],
                    [type |-> "WRITE", address |-> newDataBlock + i,
                     payload |-> readAddress]>> \o rest

random_merge(s, logBlock, logicalBlockAddress, la, necessary) ==
    LET newDataBlock == get_free_block(s)
        events == RandomMergeChain(s, logBlock, logicalBlockAddress, la, newDataBlock, 0)
        s1 == invalidate(TakeFreeBlock(s), logBlock.address)
        s2 == IF s.dl[logicalBlockAddress] # Unmapped
              THEN invalidate(s1, s.dl[logicalBlockAddress])
              ELSE s1
    IN  insert_events([s2 EXCEPT !.dl[logicalBlockAddress] = newDataBlock,
                                 !.ch = @ \o events],
                      necessary)

\* ------------------------------------------------------------------------
\* FtlImpl_Fast::write_to_log_block
\* ------------------------------------------------------------------------
write_to_log_block(s, la, necessary) ==
    LET logicalBlockAddress == LogicalBlockOf(la)
        lbnOffset == la % BLOCK_SIZE
    IN  IF lbnOffset = 0
        THEN LET s1 == IF s.so = BLOCK_SIZE - 1
                       THEN switch_sequential(s, logicalBlockAddress)
                       ELSE merge_sequential(s, logicalBlockAddress, necessary)
                 s2 == [TakeFreeBlock(s1) EXCEPT
                            !.sa = get_free_block(s1),
                            !.sla = logicalBlockAddress,
                            !.so = 1]
             IN  [s2 EXCEPT !.ev = get_free_page(s2, s2.sa)]
        ELSE IF s.sla = logicalBlockAddress
        THEN IF lbnOffset = s.so
             THEN [s EXCEPT !.ev = get_free_page(s, s.sa), !.so = @ + 1]
             ELSE LET s1 == merge_sequential(s, logicalBlockAddress, necessary)
                  IN  [TakeFreeBlock(s1) EXCEPT
                            !.so = 1,
                            !.sa = get_free_block(s1),
                            !.sla = logicalBlockAddress]
        ELSE s

\* free blocks the routing of la takes from the allocator
BlocksNeeded(s, la) ==
    LET logicalBlockAddress == LogicalBlockOf(la)
        lbnOffset == la % BLOCK_SIZE
        mergeNeeds == IF s.sla = Unmapped THEN 0 ELSE 1
    IN  IF lbnOffset = 0
        THEN (IF s.so = BLOCK_SIZE - 1 THEN 1 ELSE mergeNeeds) + 1
        ELSE IF s.sla = logicalBlockAddress /\ lbnOffset # s.so
        THEN mergeNeeds + 1
        ELSE 0

\* the chained WRITE events of a merge, executed by the device in chain order
RECURSIVE ExecuteChain(_, _, _)
ExecuteChain(s, events, content) ==
    IF events = <<>> THEN s
    ELSE LET e == Head(events)
             s1 == IF e.type = "WRITE" /\ ValidPhysical(e.address)
                   THEN [s EXCEPT !.ps[BlockOf(e.address)][PageOf(e.address)] = "VALID",
                                  !.pd[BlockOf(e.address)][PageOf(e.address)] =
                                      content[BlockOf(e.payload)][PageOf(e.payload)]]
                   ELSE s
         IN  ExecuteChain(s1, Tail(events), content)

\* ------------------------------------------------------------------------
\* Initial state: FtlImpl_Fast::FtlImpl_Fast.  The constructor sets
\* sequential_offset only; sequential_logical_address is read uninitialised:
\* it may be the sentinel, a logical block, or any other value (NumLBA stands
\* for a value that is no logical block of the device).
\* ------------------------------------------------------------------------
UninitialisedLogicalBlock == {Unmapped} \cup (0 .. NumLBA)

NoRun == [L |-> Unmapped, n |-> 0]

\* the followed logical address: the first page of a logical block, or a later
\* page of another one
ProbeAddresses == {0, BLOCK_SIZE + 1}

InitFtl ==
    /\ data_list = [l \in LBAs |-> Unmapped]
    /\ log_map = [l \in {} |-> NewLogPageBlock(0)]
    /\ sequential_offset = 0
    /\ sequential_logical_address \in UninitialisedLogicalBlock
    /\ sequential_address = 0
    /\ pstate = [b \in PhysBlocks |-> [p \in Offsets |-> "FREE"]]
    /\ pdata = [b \in PhysBlocks |-> [p \in Offsets |-> Unmapped]]
    /\ free_list = PhysBlocks
    /\ invalid_list = {}
    /\ chain = <<>>
    /\ last = [op |-> "init", la |-> 0, status |-> "NONE", addr |-> NoAddress,
               switches |-> 0, merges |-> 0, runBefore |-> NoRun]
    /\ probe \in ProbeAddresses
    /\ written = FALSE
    /\ latest = NoAddress
    /\ run = NoRun
    /\ ftl_aborted = FALSE
    /\ calls = 0
    /\ boot = (sequential_logical_address = Unmapped)

\* ------------------------------------------------------------------------
\* FtlImpl_Fast::write
\* ------------------------------------------------------------------------
write(la) ==
    LET logicalBlockAddress == LogicalBlockOf(la)
        absent == logicalBlockAddress \notin DOMAIN log_map
    IN  /\ ~ftl_aborted
        /\ calls' = calls + 1
        /\ absent => free_list # {}
        /\ log_map' = IF absent
                      THEN allocate_new_logblock(log_map, logicalBlockAddress,
                                                 BaseOf(Min(free_list)))
                      ELSE log_map
        /\ free_list' = IF absent THEN free_list \ {Min(free_list)} ELSE free_list
        /\ LET logBlockState ==
                   get_block_state(pstate, BlockOf(log_map'[logicalBlockAddress].address))
           IN  IF logBlockState = "INACTIVE"
               THEN \* assert(logBlockState != INACTIVE)
                    /\ ftl_aborted' = TRUE
                    /\ last' = [op |-> "write", la |-> 0, status |-> "ABORT",
                                addr |-> NoAddress, switches |-> 0, merges |-> 0,
                                runBefore |-> run]
                    /\ UNCHANGED <<written, latest>>
               ELSE \* the event is issued with the address it arrived with
                    /\ ftl_aborted' = FALSE
                    /\ last' = [op |-> "write", la |-> 0, status |-> ControllerIssue,
                                addr |-> NoAddress, switches |-> 0, merges |-> 0,
                                runBefore |-> run]
                    /\ written' = (written \/ la = probe)
                    /\ latest' = IF la = probe THEN NoAddress ELSE latest
        /\ chain' = <<>>
        /\ UNCHANGED <<data_list, sequential_offset, sequential_logical_address,
                       sequential_address, pstate, pdata, invalid_list, probe, run, boot>>
        /\ UNCHANGED <<bmVars, dieVars>>

\* ------------------------------------------------------------------------
\* A call of FtlImpl_Fast::read
\* ------------------------------------------------------------------------
ReadCall(la) ==
    /\ ~ftl_aborted
    /\ calls' = calls + 1
    /\ LET r == read(data_list, log_map, la)
       IN  last' = [op |-> "read", la |-> la, status |-> r.status, addr |-> r.addr,
                    switches |-> 0, merges |-> 0, runBefore |-> run]
    /\ chain' = <<>>
    /\ UNCHANGED <<data_list, log_map, sequential_offset, sequential_logical_address,
                   sequential_address, pstate, pdata, free_list, invalid_list,
                   probe, written, latest, run, ftl_aborted, boot>>
    /\ UNCHANGED <<bmVars, dieVars>>

\* ------------------------------------------------------------------------
\* A call of FtlImpl_Fast::random_merge for the random log block of the
\* logical block of la
\* ------------------------------------------------------------------------
RandomMergeCall(la, necessary) ==
    LET logicalBlockAddress == LogicalBlockOf(la)
    IN  /\ ~ftl_aborted
        /\ logicalBlockAddress \in DOMAIN log_map
        /\ free_list # {}
        /\ calls' = calls + 1
        /\ \E s \in {random_merge(FtlState, log_map[logicalBlockAddress],
                                  logicalBlockAddress, la, necessary)} :
               /\ data_list' = s.dl
               /\ pstate' = s.ps
               /\ pdata' = s.pd
               /\ free_list' = s.fl
               /\ invalid_list' = s.il
               /\ chain' = s.ch
        /\ log_map' = dispose_logblock(log_map, logicalBlockAddress)
        /\ last' = [op |-> "random_merge", la |-> la, status |-> "TRUE",
                    addr |-> NoAddress, switches |-> 0, merges |-> 0, runBefore |-> run]
        /\ UNCHANGED <<sequential_offset, sequential_logical_address,
                       sequential_address, probe, written, latest, run,
                       ftl_aborted, boot>>
        /\ UNCHANGED <<bmVars, dieVars>>

\* ------------------------------------------------------------------------
\* A call of FtlImpl_Fast::write_to_log_block for a write event, followed by
\* the device executing the event and the events chained to it
\* ------------------------------------------------------------------------
NextRun(la) ==
    LET logicalBlockAddress == LogicalBlockOf(la)
        lbnOffset == la % BLOCK_SIZE
    IN  IF lbnOffset = 0 /\ sequential_logical_address = Unmapped /\ sequential_offset = 0
        THEN [L |-> logicalBlockAddress, n |-> 1]
        ELSE IF run.n >= 1 /\ run.n < BLOCK_SIZE /\ logicalBlockAddress = run.L
                /\ lbnOffset = run.n
        THEN [L |-> run.L, n |-> run.n + 1]
        ELSE NoRun

RouteWrite(la, necessary) ==
    /\ ~ftl_aborted
    /\ calls' = calls + 1
    /\ Cardinality(free_list) >= BlocksNeeded(FtlState, la)
    /\ \E routed \in {write_to_log_block(FtlState, la, necessary)} :
       \E s \in {write_page(ExecuteChain(routed, routed.ch, pdata), routed.ev, la)} :
           /\ data_list' = s.dl
           /\ sequential_offset' = s.so
           /\ sequential_logical_address' = s.sla
           /\ sequential_address' = s.sa
           /\ pstate' = s.ps
           /\ pdata' = s.pd
           /\ free_list' = s.fl
           /\ invalid_list' = s.il
           /\ chain' = s.ch
           /\ last' = [op |-> "route", la |-> la, status |-> "SUCCESS", addr |-> s.ev,
                       switches |-> s.switches, merges |-> s.merges, runBefore |-> run]
           /\ latest' = IF la = probe THEN s.ev ELSE latest
    /\ run' = NextRun(la)
    /\ UNCHANGED <<log_map, probe, written, ftl_aborted, boot>>
    /\ UNCHANGED <<bmVars, dieVars>>

\* ------------------------------------------------------------------------
\* Block manager: Block_manager_parent (src/ssd_block_manager_parent.cpp)
\* over one package with one die
\* ------------------------------------------------------------------------
\* physical blocks of the die
NumBMBlocks == 3

\* logical pages written by the workload
NumBMLogical == 3

\* write events that may be between arrival and outcome at once
MaxInFlight == 2

\* write events (of the workload and of migrations) followed in one behaviour
MaxWrites == 10

\* erases of one block after which the skewed workload stops writing
MaxWear == 502

\* constructor argument num_age_classes
num_age_classes == 2

\* Wear_Level: if (age_diff > 500 && ...)
WearLevelThreshold == 500

greedy_gc == TRUE

BMBlocks == 0 .. (NumBMBlocks - 1)

BMPages == 0 .. (NumBMBlocks * BLOCK_SIZE - 1)

BMLogical == 0 .. (NumBMLogical - 1)

AgeClasses == 0 .. (num_age_classes - 1)

\* Address(): every field 0, granularity NONE; a write of a logical page
\* that has no earlier location carries it as its replace address
DefaultAddress == 0

NoBlock == 0 - 1

\* unsigned (uint) subtraction.  A difference below 0 wraps around to
\* 2^32 - (b - a); the model checker's integers end at 2^31 - 1, so the wrapped
\* value is kept as 2^31 - (b - a), which is also above every age and counter.
UintSub(a, b) == IF a >= b THEN a - b ELSE (2147483647 - (b - a)) + 1

Block_get_pages_valid(pg, b) == Cardinality({p \in Offsets : pg[b][p] = "VALID"})

Block_get_pages_invalid(pg, b) == Cardinality({p \in Offsets : pg[b][p] = "INVALID"})

\* the fields of the block manager and of the device that a handler reads and
\* writes, as a record; ab is set when an assertion fails
BMState ==
    [pg |-> bm_pages, er |-> erases_done, nf |-> num_free_pages,
     na |-> num_available_pages_for_new_writes, mx |-> max_age, mn |-> min_age,
     bw |-> blocks_with_min_age, fb |-> free_blocks, fp |-> free_block_pointers,
     gc |-> gc_candidates, gq |-> gc_writes, eq |-> erase_events, ab |-> bm_aborted,
     fa |-> failed_assertion]

AssertFails(s, assertion) == [s EXCEPT !.ab = TRUE, !.fa = assertion]

\* sort_into_age_class: the new max_age and the class.  The quotient is the
\* unsigned integer quotient (both operands are uint) before it is converted
\* to double; min_age (the member) is 0 and max_age >= 1 in every state, so
\* the divisor is never 0.
AgeClassOf(er, mx, mn, b) ==
    LET age == er[b]
        newMax == IF age > mx THEN age ELSE mx
        divisor == UintSub(newMax, mn)
        quotient == IF divisor = 0 THEN 0 ELSE UintSub(age, mn) \div divisor
    IN  [mx |-> newMax,
         klass |-> (quotient * num_age_classes * 99999) \div 100000]

sort_into_age_class(s, b) == AgeClassOf(s.er, s.mx, s.mn, b)

\* the entry assertion of migrate
MigrateAssertion(s, b) ==
    /\ get_block_state(s.pg, b) # "FREE"
    /\ get_block_state(s.pg, b) # "PARTIALLY_FREE"
    /\ Block_get_pages_valid(s.pg, b) <= s.na

\* migrate that schedules the (READ, WRITE) pairs without reserving their
\* pages (without line 331)
migrate_without_reservation(s, b) ==
    IF s.ab THEN s
    ELSE IF ~MigrateAssertion(s, b) THEN AssertFails(s, "migrate")
    ELSE [s EXCEPT !.gq = [a \in BMPages |->
                             IF BlockOf(a) = b /\ s.pg[b][PageOf(a)] = "VALID"
                             THEN s.gq[a] + 1 ELSE s.gq[a]]]

\* migrate that schedules a (READ, WRITE) pair for every page of the block
\* that is not FREE
migrate_every_used_page(s, b) ==
    IF s.ab THEN s
    ELSE IF ~MigrateAssertion(s, b) THEN AssertFails(s, "migrate")
    ELSE [s EXCEPT !.na = @ - Block_get_pages_valid(s.pg, b),
                   !.gq = [a \in BMPages |->
                             IF BlockOf(a) = b /\ s.pg[b][PageOf(a)] # "FREE"
                             THEN s.gq[a] + 1 ELSE s.gq[a]]]

\* migrate: reserve the valid pages and schedule one (READ, WRITE) pair per
\* VALID page of the block
migrate(s, b) ==
    IF s.ab THEN s
    ELSE IF ~MigrateAssertion(s, b) THEN AssertFails(s, "migrate")
    ELSE [s EXCEPT !.na = @ - Block_get_pages_valid(s.pg, b),
                   !.gq = [a \in BMPages |->
                             IF BlockOf(a) = b /\ s.pg[b][PageOf(a)] = "VALID"
                             THEN s.gq[a] + 1 ELSE s.gq[a]]]

\* choose_gc_victim: position of a block in the iteration over the candidate
\* sets (sets in order, blocks of a set in address order)
CandidateRank(candidates, b) ==
    Min({i \in DOMAIN candidates : b \in candidates[i]}) * NumBMBlocks + b

\* choose_gc_victim taking the first candidate of the iteration that holds an
\* INVALID page, whatever its valid-page count
FirstCandidate(pg, candidates) ==
    LET all == UNION {candidates[i] : i \in DOMAIN candidates}
        eligible == {b \in all : Block_get_pages_valid(pg, b) < BLOCK_SIZE}
    IN  IF eligible = {} THEN NoBlock
        ELSE CHOOSE b \in eligible : \A c \in eligible :
                CandidateRank(candidates, b) <= CandidateRank(candidates, c)

BestBlock(pg, candidates) ==
    LET all == UNION {candidates[i] : i \in DOMAIN candidates}
        eligible == {b \in all : Block_get_pages_valid(pg, b) < BLOCK_SIZE}
    IN  IF eligible = {} THEN NoBlock
        ELSE CHOOSE b \in eligible : \A c \in eligible \ {b} :
                \/ Block_get_pages_valid(pg, b) < Block_get_pages_valid(pg, c)
                \/ /\ Block_get_pages_valid(pg, b) = Block_get_pages_valid(pg, c)
                   /\ CandidateRank(candidates, b) < CandidateRank(candidates, c)

choose_gc_victim(s, candidates) ==
    LET best_block == BestBlock(s.pg, candidates)
        ac == sort_into_age_class(s, best_block)
    IN  IF s.ab \/ best_block = NoBlock THEN s
        ELSE IF best_block \notin s.gc[ac.klass]
        THEN AssertFails([s EXCEPT !.mx = ac.mx], "choose_gc_victim")
        ELSE migrate([s EXCEPT !.mx = ac.mx,
                               !.gc[ac.klass] = @ \ {best_block}], best_block)

\* perform_gc(start_time): the candidates of every age class
perform_gc(s) ==
    choose_gc_victim(s, [i \in 1 .. num_age_classes |-> s.gc[i - 1]])

\* perform_gc(package_id, die_id, klass, start_time)
perform_gc_class(s, klass) == choose_gc_victim(s, <<s.gc[klass]>>)

\* find_free_unused_block(package_id, die_id, klass, time)
find_free_unused_block_class(s, klass) ==
    LET list == s.fb[klass]
        found == Len(list) > 0
        popped == IF found
                  THEN [s EXCEPT !.fb[klass] = SubSeq(list, 1, Len(list) - 1)]
                  ELSE s
    IN  [s |-> IF greedy_gc /\ Len(popped.fb[klass]) < 2
               THEN perform_gc_class(popped, klass)
               ELSE popped,
         addr |-> IF found THEN list[Len(list)] ELSE NoBlock]

\* find_free_unused_block(package_id, die_id, time): the classes in order
RECURSIVE find_free_unused_block(_, _)
find_free_unused_block(s, i) ==
    IF s.ab \/ i >= num_age_classes THEN [s |-> s, addr |-> NoBlock]
    ELSE LET r == find_free_unused_block_class(s, i)
         IN  IF r.addr # NoBlock THEN r ELSE find_free_unused_block(r.s, i + 1)

\* register_write_arrival: invalidates the original location of a write
register_write_arrival(pg, ra) ==
    IF pg[BlockOf(ra)][PageOf(ra)] = "VALID"
    THEN [pg EXCEPT ![BlockOf(ra)][PageOf(ra)] = "INVALID"]
    ELSE pg

\* register_write_outcome for a write event with replace address ra
register_write_outcome(s, is_gc, ra) ==
    LET block == BlockOf(ra)
        s1 == IF s.nf <= 0
              THEN AssertFails(s, IF is_gc THEN "num_free_pages (GC write)"
                                           ELSE "num_free_pages")
              ELSE [s EXCEPT !.nf = @ - 1]
        s2 == IF s1.ab \/ is_gc THEN s1
              ELSE IF s1.na <= 0
              THEN AssertFails(s1, "num_available_pages_for_new_writes")
              ELSE [s1 EXCEPT !.na = @ - 1]
        s3 == IF ~s2.ab /\ s2.nf <= BLOCK_SIZE THEN perform_gc(s2) ELSE s2
        ac == sort_into_age_class(s3, block)
        s4 == [s3 EXCEPT !.mx = ac.mx]
        invalid == Block_get_pages_invalid(s4.pg, block)
        s5 == IF /\ get_block_state(s4.pg, block) = "ACTIVE"
                 /\ (invalid < BLOCK_SIZE \div 4 \/ s4.gc[ac.klass] = {})
              THEN [s4 EXCEPT !.gc[ac.klass] = @ \cup {block}]
              ELSE s4
    IN  IF s3.ab THEN s3
        ELSE IF invalid = BLOCK_SIZE
        THEN [s5 EXCEPT !.gc[ac.klass] = @ \ {block}, !.eq[block] = @ + 1]
        ELSE s5

\* register_erase_outcome for the ERASE event of block b
register_erase_outcome(s, b) ==
    LET ac == sort_into_age_class(s, b)
    IN  IF s.ab THEN s
        ELSE [s EXCEPT !.mx = ac.mx,
                       !.fb[ac.klass] = Append(@, b),
                       !.nf = @ + BLOCK_SIZE,
                       !.na = @ + BLOCK_SIZE]

\* update_blocks_with_min_age(min_age)
update_blocks_with_min_age(er, bw, age) == bw \cup {b \in BMBlocks : er[b] = age}

\* the blocks of a set in iteration (address) order
RECURSIVE InAddressOrder(_)
InAddressOrder(S) ==
    IF S = {} THEN <<>> ELSE <<Min(S)>> \o InAddressOrder(S \ {Min(S)})

\* Wear_Level: while (!blocks_to_wl.empty() && num_available... > front valid)
RECURSIVE WearLevelLoop(_, _)
WearLevelLoop(s, blocks_to_wl) ==
    IF s.ab \/ blocks_to_wl = <<>> THEN s
    ELSE LET target == Head(blocks_to_wl)
             valid == Block_get_pages_valid(s.pg, target)
         IN  IF ~(s.na > valid) THEN s
             ELSE WearLevelLoop(migrate([s EXCEPT !.na = @ - valid], target),
                                Tail(blocks_to_wl))

\* Wear_Level for the ERASE event of block b.  The local min_age is the age
\* of the first block of blocks_with_min_age and hides the member.
Wear_Level(s, b) ==
    LET age == s.er[b]
        local_min_age == s.er[Min(s.bw)]
        older == age > s.mx
        trigger == older /\ UintSub(age, local_min_age) > WearLevelThreshold
        s1 == IF older
              THEN IF trigger
                   THEN [s EXCEPT !.mx = age,
                                  !.bw = update_blocks_with_min_age(s.er, @,
                                                                    local_min_age + 1)]
                   ELSE [s EXCEPT !.mx = age]
              ELSE IF b \in s.bw /\ Cardinality(s.bw) > 1
              THEN [s EXCEPT !.bw = @ \ {b}]
              ELSE IF b \in s.bw /\ Cardinality(s.bw) = 1
              THEN [s EXCEPT !.bw = update_blocks_with_min_age(s.er, @ \ {b},
                                                                local_min_age)]
              ELSE s
    IN  IF s.ab THEN s
        ELSE WearLevelLoop(s1, IF trigger THEN InAddressOrder(s.bw) ELSE <<>>)

\* ------------------------------------------------------------------------
\* Block_manager_parent::Block_manager_parent over a new device
\* ------------------------------------------------------------------------
InitBM ==
    /\ bm_pages = [b \in BMBlocks |-> [p \in Offsets |-> "FREE"]]
    /\ erases_done = [b \in BMBlocks |-> 0]
    /\ num_free_pages = NumBMBlocks * BLOCK_SIZE
    /\ num_available_pages_for_new_writes = NumBMBlocks * BLOCK_SIZE
    /\ max_age = 1
    /\ min_age = 0
    /\ blocks_with_min_age = BMBlocks
    /\ free_blocks = [k \in AgeClasses |->
                        IF k = 0 THEN [i \in 1 .. (NumBMBlocks - 1) |-> i - 1] ELSE <<>>]
    /\ free_block_pointers = [block |-> NumBMBlocks - 1, page |-> 0]
    /\ gc_candidates = [k \in AgeClasses |-> {}]
    /\ in_flight = {}
    /\ gc_writes = [a \in BMPages |-> 0]
    /\ erase_events = [b \in BMBlocks |-> 0]
    /\ logical_map = [l \in BMLogical |-> Unmapped]
    /\ bm_aborted = FALSE
    /\ failed_assertion = "none"

\* the state a handler leaves behind
Commit(s) ==
    /\ bm_pages' = s.pg
    /\ erases_done' = s.er
    /\ num_free_pages' = s.nf
    /\ num_available_pages_for_new_writes' = s.na
    /\ max_age' = s.mx
    /\ min_age' = s.mn
    /\ blocks_with_min_age' = s.bw
    /\ free_blocks' = s.fb
    /\ free_block_pointers' = s.fp
    /\ gc_candidates' = s.gc
    /\ gc_writes' = s.gq
    /\ erase_events' = s.eq
    /\ bm_aborted' = s.ab
    /\ failed_assertion' = s.fa

\* can_write
can_write(is_gc) == num_available_pages_for_new_writes > 0 \/ is_gc

FrontierPage == BaseOf(free_block_pointers.block) + free_block_pointers.page

\* a write event can be given the next page of the append frontier
CanIssue(la) ==
    /\ ~bm_aborted
    /\ free_block_pointers.page < BLOCK_SIZE
    /\ \A e \in in_flight : e.target # FrontierPage /\ (la # Unmapped => e.la # la)

\* the logical page stored at physical page a, or -1
get_logical_address(a) ==
    IF \E l \in BMLogical : logical_map[l] = a
    THEN CHOOSE l \in BMLogical : logical_map[l] = a
    ELSE Unmapped

\* A write of logical page la arrives: it is given the frontier page, and
\* register_write_arrival invalidates the page it replaces
IssueWrite(la) ==
    LET ra == IF logical_map[la] = Unmapped THEN DefaultAddress ELSE logical_map[la]
    IN  /\ CanIssue(la)
        /\ can_write(FALSE)
        /\ \A a \in BMPages : gc_writes[a] > 0 => logical_map[la] # a
        /\ bm_pages' = register_write_arrival(bm_pages, ra)
        /\ in_flight' = in_flight \cup
                {[gc |-> FALSE, la |-> la, ra |-> ra, target |-> FrontierPage]}
        /\ free_block_pointers' = [free_block_pointers EXCEPT !.page = @ + 1]
        /\ logical_map' = [logical_map EXCEPT ![la] = FrontierPage]
        /\ UNCHANGED <<erases_done, num_free_pages, num_available_pages_for_new_writes,
                       max_age, min_age, blocks_with_min_age, free_blocks,
                       gc_candidates, gc_writes, erase_events, bm_aborted,
                       failed_assertion>>
        /\ UNCHANGED <<ftlVars, dieVars>>

\* The WRITE of a scheduled migration pair for page a arrives
IssueGCWrite(a) ==
    LET la == get_logical_address(a)
    IN  /\ gc_writes[a] > 0
        /\ CanIssue(la)
        /\ can_write(TRUE)
        /\ bm_pages' = register_write_arrival(bm_pages, a)
        /\ gc_writes' = [gc_writes EXCEPT ![a] = @ - 1]
        /\ in_flight' = in_flight \cup
                {[gc |-> TRUE, la |-> la, ra |-> a, target |-> FrontierPage]}
        /\ free_block_pointers' = [free_block_pointers EXCEPT !.page = @ + 1]
        /\ logical_map' = IF la = Unmapped THEN logical_map
                          ELSE [logical_map EXCEPT ![la] = FrontierPage]
        /\ UNCHANGED <<erases_done, num_free_pages, num_available_pages_for_new_writes,
                       max_age, min_age, blocks_with_min_age, free_blocks,
                       gc_candidates, erase_events, bm_aborted, failed_assertion>>
        /\ UNCHANGED <<ftlVars, dieVars>>

\* The device finishes write event e and register_write_outcome runs
CompleteWrite(e) ==
    /\ ~bm_aborted
    /\ e \in in_flight
    /\ \E s \in {register_write_outcome(
                    [BMState EXCEPT !.pg[BlockOf(e.target)][PageOf(e.target)] = "VALID"],
                    e.gc, e.ra)} : Commit(s)
    /\ in_flight' = in_flight \ {e}
    /\ UNCHANGED logical_map
    /\ UNCHANGED <<ftlVars, dieVars>>

\* The frontier block is used up: the next one is taken from the free lists
AdvanceFrontier ==
    /\ ~bm_aborted
    /\ free_block_pointers.page >= BLOCK_SIZE
    /\ \E r \in {find_free_unused_block(BMState, 0)} :
            Commit(IF r.addr = NoBlock THEN r.s
                   ELSE [r.s EXCEPT !.fp = [block |-> r.addr, page |-> 0]])
    /\ UNCHANGED <<in_flight, logical_map>>
    /\ UNCHANGED <<ftlVars, dieVars>>

\* The device executes a scheduled ERASE of block b; Wear_Level and
\* register_erase_outcome run for it, in either order
EraseComplete(b, wear_level_first) ==
    /\ ~bm_aborted
    /\ erase_events[b] > 0
    /\ \E erased \in {[BMState EXCEPT !.eq[b] = @ - 1,
                                      !.pg[b] = [p \in Offsets |-> "FREE"],
                                      !.er[b] = @ + 1]} :
       \E s \in {IF wear_level_first
                 THEN register_erase_outcome(Wear_Level(erased, b), b)
                 ELSE Wear_Level(register_erase_outcome(erased, b), b)} : Commit(s)
    /\ logical_map' = [l \in BMLogical |->
                          IF logical_map[l] # Unmapped /\ BlockOf(logical_map[l]) = b
                          THEN Unmapped ELSE logical_map[l]]
    /\ UNCHANGED in_flight
    /\ UNCHANGED <<ftlVars, dieVars>>

RECURSIVE SumOver(_, _)
SumOver(f, S) == IF S = {} THEN 0 ELSE f[Min(S)] + SumOver(f, S \ {Min(S)})

\* the write events that have arrived so far: every completed one took one
\* page from num_free_pages, every erase completion gave BLOCK_SIZE back
WritesArrived ==
    (NumBMBlocks * BLOCK_SIZE - num_free_pages)
        + BLOCK_SIZE * SumOver(erases_done, BMBlocks) + Cardinality(in_flight)

WorkloadBelow(k) == WritesArrived < k

InFlightBelow(k) == Cardinality(in_flight) < k

NextBM ==
    \/ \E la \in BMLogical : WorkloadBelow(MaxWrites) /\ InFlightBelow(MaxInFlight) /\ IssueWrite(la)
    \/ \E a \in BMPages : InFlightBelow(MaxInFlight) /\ IssueGCWrite(a)
    \/ \E e \in in_flight : CompleteWrite(e)
    \/ AdvanceFrontier
    \/ \E b \in BMBlocks, wear_level_first \in BOOLEAN : EraseComplete(b, wear_level_first)

\* the FTL fields while the block manager alone is followed
FtlIdle ==
    /\ InitFtl
    /\ probe = 0
    /\ sequential_logical_address = Unmapped

InitBMOnly == FtlIdle /\ InitBM /\ DieIdle

SpecBM == InitBMOnly /\ [][NextBM]_<<ftlVars, bmVars, dieVars>>

\* no event of the block manager is outstanding: no write in flight, no
\* scheduled migration pair, no scheduled ERASE
BMIdle ==
    /\ in_flight = {}
    /\ \A a \in BMPages : gc_writes[a] = 0
    /\ \A b \in BMBlocks : erase_events[b] = 0

WearBelow(k) == \A b \in BMBlocks : erases_done[b] < k

\* A skewed workload: logical page 0 is rewritten all the time, logical page
\* 1 is first written when the device is worn
WearWorkload(la) ==
    \/ la = 0
    \/ la = 1 /\ max_age + 3 >= WearLevelThreshold

\* The block manager under the skewed workload, one event at a time
NextWear ==
    \/ \E la \in BMLogical :
            BMIdle /\ WearBelow(MaxWear) /\ WearWorkload(la) /\ IssueWrite(la)
    \/ \E a \in BMPages : in_flight = {} /\ IssueGCWrite(a)
    \/ \E e \in in_flight : CompleteWrite(e)
    \/ AdvanceFrontier
    \/ \E b \in BMBlocks, wear_level_first \in BOOLEAN : EraseComplete(b, wear_level_first)

SpecWear == InitBMOnly /\ [][NextWear]_<<ftlVars, bmVars, dieVars>>

\* choose_gc_victim over the candidate sets it can be handed: every block
\* but the frontier block is full, with any number of its pages still VALID,
\* has been erased at most max_age times, and may be a GC candidate of its
\* age class when it holds an INVALID page
GCBlocks == 0 .. (NumBMBlocks - 2)

InitGC ==
    /\ FtlIdle
    /\ DieIdle
    /\ \E fill \in [GCBlocks -> 1 .. BLOCK_SIZE], er \in [BMBlocks -> {0, 1}],
          cand \in SUBSET GCBlocks :
            /\ \A b \in cand : fill[b] < BLOCK_SIZE
            /\ bm_pages = [b \in BMBlocks |-> [p \in Offsets |->
                    IF b \notin GCBlocks THEN "FREE"
                    ELSE IF p < fill[b] THEN "VALID" ELSE "INVALID"]]
            /\ erases_done = er
            /\ gc_candidates = [k \in AgeClasses |->
                    {b \in cand : AgeClassOf(er, 1, 0, b).klass = k}]
            /\ blocks_with_min_age =
                    {b \in BMBlocks : \A c \in BMBlocks : er[b] <= er[c]}
    /\ num_free_pages = BLOCK_SIZE
    /\ num_available_pages_for_new_writes = BLOCK_SIZE
    /\ max_age = 1
    /\ min_age = 0
    /\ free_blocks = [k \in AgeClasses |-> <<>>]
    /\ free_block_pointers = [block |-> NumBMBlocks - 1, page |-> 0]
    /\ in_flight = {}
    /\ gc_writes = [a \in BMPages |-> 0]
    /\ erase_events = [b \in BMBlocks |-> 0]
    /\ logical_map = [l \in BMLogical |-> Unmapped]
    /\ bm_aborted = FALSE
    /\ failed_assertion = "none"

\* perform_gc(start_time) is called
PerformGC ==
    /\ ~bm_aborted
    /\ \E k \in AgeClasses : gc_candidates[k] # {}
    /\ Commit(perform_gc(BMState))
    /\ UNCHANGED <<in_flight, logical_map>>
    /\ UNCHANGED <<ftlVars, dieVars>>

NextGC == PerformGC

SpecGC == InitGC /\ [][NextGC]_<<ftlVars, bmVars, dieVars>>

\* A call of get_free_die_with_shortest_IO_queue()
SelectDie ==
    /\ selected = NotCalled
    /\ selected' = get_free_die_with_shortest_IO_queue
    /\ UNCHANGED <<die_pointers, register_busy, die_finish_time, channel_finish_time>>
    /\ UNCHANGED <<ftlVars, bmVars>>

NextDie == SelectDie

InitDieOnly == FtlIdle /\ InitBM /\ InitDie

SpecDie == InitDieOnly /\ [][NextDie]_<<ftlVars, bmVars, dieVars>>

vars == <<ftlVars, bmVars, dieVars>>

Init == InitFtl /\ InitBM /\ DieIdle

\* The FTL: any call, for any logical address
Next ==
    \/ \E la \in LogicalAddresses : calls < MaxCalls /\ write(la)
    \/ \E la \in ProbeAddresses : calls < MaxCalls /\ ReadCall(la)
    \/ \E la \in LogicalAddresses, necessary \in BOOLEAN :
            calls < MaxCalls /\ RouteWrite(la, necessary)

Spec == Init /\ [][Next]_vars

\* The sequential log: write routing for the first two logical blocks
SequentialAddresses == 0 .. (2 * BLOCK_SIZE - 1)

NextSeq ==
    \E la \in SequentialAddresses, necessary \in BOOLEAN :
        calls < MaxFill /\ RouteWrite(la, necessary)

SpecSeq == Init /\ [][NextSeq]_vars

\* FtlImpl_Fast::read over the mappings it can be handed: one logical block
\* with any data block and any random log block, and one read
ReadBlockAddresses == {BaseOf(0), BaseOf(NumPhysBlocks - 1)}

ReadSlots == {Unmapped, 0, BLOCK_SIZE - 1}

InitRead ==
    /\ \E L \in LBAs :
        /\ \E d \in {Unmapped} \cup ReadBlockAddresses :
                data_list = [l \in LBAs |-> IF l = L THEN d ELSE Unmapped]
        /\ \/ log_map = [l \in {} |-> NewLogPageBlock(0)]
           \/ \E a \in ReadBlockAddresses, pg \in [Offsets -> ReadSlots] :
                    log_map = [l \in {L} |-> [address |-> a, pages |-> pg]]
    /\ sequential_offset = 0
    /\ sequential_logical_address \in UninitialisedLogicalBlock
    /\ sequential_address = 0
    /\ pstate = [b \in PhysBlocks |-> [p \in Offsets |-> "FREE"]]
    /\ pdata = [b \in PhysBlocks |-> [p \in Offsets |-> Unmapped]]
    /\ free_list = PhysBlocks
    /\ invalid_list = {}
    /\ chain = <<>>
    /\ last = [op |-> "init", la |-> 0, status |-> "NONE", addr |-> NoAddress,
               switches |-> 0, merges |-> 0, runBefore |-> NoRun]
    /\ probe = 0
    /\ written = FALSE
    /\ latest = NoAddress
    /\ run = NoRun
    /\ ftl_aborted = FALSE
    /\ calls = 0
    /\ boot = (sequential_logical_address = Unmapped)
    /\ InitBM
    /\ DieIdle

NextRead == \E la \in LogicalAddresses : calls = 0 /\ ReadCall(la)

SpecRead == InitRead /\ [][NextRead]_vars

\* FtlImpl_Fast::random_merge over the mappings it can be handed: one logical
\* block with a random log block whose slots hold any pages of it, each at a
\* position of its own, and with or without a data block
MergeDataBlock == BaseOf(0)

MergeLogBlock == BaseOf(1)

MergeSlots ==
    {pg \in [Offsets -> {Unmapped} \cup Offsets] :
        \A i, j \in Offsets : (i # j /\ pg[i] # Unmapped) => pg[i] # pg[j]}

InitMerge ==
    /\ \E L \in LBAs, d \in {Unmapped, MergeDataBlock}, pg \in MergeSlots :
        /\ data_list = [l \in LBAs |-> IF l = L THEN d ELSE Unmapped]
        /\ log_map = [l \in {L} |-> [address |-> MergeLogBlock, pages |-> pg]]
        /\ pstate = [b \in PhysBlocks |->
                        IF BaseOf(b) = MergeDataBlock /\ d # Unmapped
                        THEN [p \in Offsets |-> "VALID"]
                        ELSE IF BaseOf(b) = MergeLogBlock
                        THEN [p \in Offsets |->
                                IF \E i \in Offsets : pg[i] = p THEN "VALID" ELSE "FREE"]
                        ELSE [p \in Offsets |-> "FREE"]]
        /\ pdata = [b \in PhysBlocks |->
                        IF BaseOf(b) = MergeDataBlock /\ d # Unmapped
                        THEN [p \in Offsets |-> L * BLOCK_SIZE + p]
                        ELSE IF BaseOf(b) = MergeLogBlock
                        THEN [p \in Offsets |->
                                IF \E i \in Offsets : pg[i] = p
                                THEN L * BLOCK_SIZE + (CHOOSE i \in Offsets : pg[i] = p)
                                ELSE Unmapped]
                        ELSE [p \in Offsets |-> Unmapped]]
    /\ free_list = PhysBlocks \ {BlockOf(MergeDataBlock), BlockOf(MergeLogBlock)}
    /\ sequential_offset = 0
    /\ sequential_logical_address = Unmapped
    /\ sequential_address = 0
    /\ invalid_list = {}
    /\ chain = <<>>
    /\ last = [op |-> "init", la |-> 0, status |-> "NONE", addr |-> NoAddress,
               switches |-> 0, merges |-> 0, runBefore |-> NoRun]
    /\ probe = 0
    /\ written = FALSE
    /\ latest = NoAddress
    /\ run = NoRun
    /\ ftl_aborted = FALSE
    /\ calls = 0
    /\ boot = TRUE
    /\ InitBM
    /\ DieIdle

NextMerge ==
    \E la \in LogicalAddresses, necessary \in BOOLEAN :
        calls = 0 /\ RandomMergeCall(la, necessary)

SpecMerge == InitMerge /\ [][NextMerge]_vars

\* ------------------------------------------------------------------------
\* Properties
\* ------------------------------------------------------------------------
\* a random log block for logical block L holds page p
LogHolds(L, p) == L \in DOMAIN log_map /\ log_map[L].pages[p] # Unmapped

PageHoldsData(a, la) ==
    /\ ValidPhysical(a)
    /\ pstate[BlockOf(a)][PageOf(a)] = "VALID"
    /\ pdata[BlockOf(a)][PageOf(a)] = la

\* C1: read-after-write.  Once the followed logical address has been written
\* through write(), reading it succeeds and resolves to the physical page that
\* holds its most recent write.
C1_ReadAfterWrite ==
    written =>
        LET r == read(data_list, log_map, probe)
        IN  /\ r.status = "SUCCESS"
            /\ r.addr = latest
            /\ PageHoldsData(r.addr, probe)

\* C2: read returns FAILURE if and only if the addressed page was never
\* written (no random log block holds it and data_list is unmapped, also when
\* the logical block has no log_map entry); otherwise the read is issued to a
\* mapped physical page.
C2_ReadFailsIffUnwritten ==
    last.op = "read" =>
        LET L == LogicalBlockOf(last.la)
            p == PageOf(last.la)
            unwritten == ~LogHolds(L, p) /\ data_list[L] = Unmapped
        IN  /\ (last.status = "FAILURE") <=> unwritten
            /\ (last.status # "FAILURE") => ValidPhysical(last.addr)

\* C3: log_map never holds more than PAGE_MAX_LOG entries.
C3_LogMapBounded == Cardinality(DOMAIN log_map) <= PAGE_MAX_LOG

\* the number of physical pages in state FREE
FreePageCount == Cardinality({a \in BMPages : bm_pages[BlockOf(a)][PageOf(a)] = "FREE"})

\* C4: in every reachable state of the block manager, after any sequence of
\* write completions, erase completions, garbage collections, migrations and
\* wear-levelling steps, num_free_pages >= num_available_pages_for_new_writes
\* >= 0: neither counter drops below zero or wraps around.
C4_CountersOrdered ==
    /\ num_free_pages >= num_available_pages_for_new_writes
    /\ num_available_pages_for_new_writes >= 0

\* Wear_Level has migrated a block, its reservation is still held
C4_Witness ==
    /\ ~bm_aborted
    /\ max_age > WearLevelThreshold
    /\ \E a \in BMPages : gc_writes[a] > 0
    /\ num_available_pages_for_new_writes < num_free_pages

\* C5: num_available_pages_for_new_writes differs from num_free_pages only by
\* the pages reserved for in-flight migrations: in every state in which no
\* migration write is outstanding and every scheduled erase has been
\* registered, num_available_pages_for_new_writes = num_free_pages.
C5_AvailableEqualsFreeWhenIdle ==
    (~bm_aborted /\ BMIdle) => num_available_pages_for_new_writes = num_free_pages

\* C6: in every reachable state num_free_pages equals the number of physical
\* pages whose state is FREE (each erase completion adds BLOCK_SIZE, each
\* write completion subtracts one).  Stated for the states in which no
\* assertion has stopped the program.
C6_FreePagesCounted == ~bm_aborted => num_free_pages = FreePageCount

\* C7: switch fast path.  From an empty sequential log, after the offsets
\* 0 .. BLOCK_SIZE-1 of one logical block were written in ascending order, a
\* write with offset 0 triggers switch_sequential exactly once, no
\* merge_sequential, and chains no merge READ/WRITE events.
C7_SwitchFastPath ==
    (last.op = "route" /\ last.la % BLOCK_SIZE = 0 /\ last.runBefore.n = BLOCK_SIZE) =>
        /\ last.switches = 1
        /\ last.merges = 0
        /\ chain = <<>>

\* C8: with BLOCK_SIZE = 4, after logical addresses 0, 1, 2 were written in
\* order, a second write to logical address 0 triggers merge_sequential and
\* not switch_sequential.
C8_PartialFillMerges ==
    (BLOCK_SIZE = 4 /\ last.op = "route" /\ last.la = 0
        /\ last.runBefore = [L |-> 0, n |-> 3]) =>
        /\ last.merges >= 1
        /\ last.switches = 0

\* C9: sequential-log invariant.  The pages [0, sequential_offset) of the
\* block at sequential_address are valid and hold the pages 0 ..
\* sequential_offset-1 of logical block sequential_logical_address, and
\* sequential_offset is the next page that will be appended.  Stated for
\* the behaviours in which the constructor left the sentinel in
\* sequential_logical_address.
C9_SequentialLogInvariant ==
    (boot /\ sequential_logical_address \in LBAs) =>
        /\ sequential_offset <= BLOCK_SIZE
        /\ \A i \in 0 .. (sequential_offset - 1) :
                PageHoldsData(sequential_address + i,
                              sequential_logical_address * BLOCK_SIZE + i)
        /\ sequential_offset < BLOCK_SIZE =>
                get_free_page(FtlState, sequential_address)
                    = sequential_address + sequential_offset

\* C10: read resolution order.  If a random log block of the logical block
\* holds the page, the read is issued to the log block's slot for it, also
\* when data_list is mapped; otherwise, if data_list is mapped, the read is
\* issued to data_list[L] + p.
C10_ReadResolutionOrder ==
    last.op = "read" =>
        LET L == LogicalBlockOf(last.la)
            p == PageOf(last.la)
        IN  /\ LogHolds(L, p) =>
                    /\ last.status = "SUCCESS"
                    /\ last.addr = log_map[L].address + log_map[L].pages[p]
            /\ (~LogHolds(L, p) /\ data_list[L] # Unmapped) =>
                    /\ last.status = "SUCCESS"
                    /\ last.addr = data_list[L] + p

\* a read of a page held both by a random log block and by the data block
C10_Witness ==
    /\ last.op = "read"
    /\ LogHolds(LogicalBlockOf(last.la), PageOf(last.la))
    /\ data_list[LogicalBlockOf(last.la)] # Unmapped
    /\ last.addr # data_list[LogicalBlockOf(last.la)] + PageOf(last.la)

\* C11: wear-levelling convergence.  Under fair processing of erase
\* completions and scheduled migrations the spread max_age - min_age does not
\* stay above the wear-levelling threshold: once every erase completion and
\* every scheduled migration has been processed, the blocks of
\* blocks_with_min_age have been migrated, min_age has advanced and
\* max_age - min_age <= threshold holds again.
C11_WearLevellingConverges ==
    (~bm_aborted /\ BMIdle) => max_age - min_age <= WearLevelThreshold

\* the lowest erase count over all blocks
LowestEraseCount == Min({erases_done[b] : b \in BMBlocks})

\* C12: after every erase completion has been processed by the wear-levelling
\* step, blocks_with_min_age is exactly the set of blocks whose erase count
\* equals min_age, and min_age is the minimum erase count over all blocks.
C12_BlocksWithMinAge ==
    (~bm_aborted /\ \E b \in BMBlocks : erases_done[b] > 0) =>
        /\ blocks_with_min_age = {b \in BMBlocks : erases_done[b] = min_age}
        /\ min_age = LowestEraseCount

\* the candidate sets perform_gc(start_time) hands to choose_gc_victim
AllCandidateSets == [i \in 1 .. num_age_classes |-> gc_candidates[i - 1]]

CandidateUnion == UNION {gc_candidates[k] : k \in AgeClasses}

\* the blocks a call of choose_gc_victim in the current state takes out of
\* gc_candidates
VictimsOf(r) == CandidateUnion \ UNION {r.gc[k] : k \in AgeClasses}

\* the pages for which the call schedules a migration pair
MigrationsOf(r) == {a \in BMPages : r.gq[a] > gc_writes[a]}

C14_CandidateThreshold ==
    [][\A e \in in_flight :
        LET b == BlockOf(e.ra)
            invalid == Block_get_pages_invalid(bm_pages, b)
            klass == sort_into_age_class(BMState, b).klass
        IN  (/\ in_flight' = in_flight \ {e}
             /\ ~bm_aborted'
             /\ num_free_pages - 1 > BLOCK_SIZE
             /\ bm_pages[b][PageOf(e.ra)] = "INVALID"
             /\ get_block_state(bm_pages', b) = "ACTIVE"
             /\ invalid < BLOCK_SIZE)
            =>  /\ (invalid >= BLOCK_SIZE \div 4 \/ gc_candidates[klass] = {})
                    => b \in gc_candidates'[klass]
                /\ (/\ invalid < BLOCK_SIZE \div 4
                    /\ gc_candidates[klass] # {}
                    /\ b \notin gc_candidates[klass])
                    => b \notin gc_candidates'[klass]
    ]_<<ftlVars, bmVars, dieVars>>

\* the number of entries of the free lists that name block b
FreeListEntries(b) ==
    Cardinality(UNION {{<<k, i>> : i \in {j \in DOMAIN free_blocks[k] : free_blocks[k][j] = b}} :
                            k \in AgeClasses})

\* C15: free-list invariant.  In every reachable state a block is contained
\* in some free_blocks list if and only if all of its pages are FREE and it
\* is not the current free_block_pointer of its die; no block appears in two
\* free lists or twice in one.
C15_FreeListInvariant ==
    ~bm_aborted =>
        \A b \in BMBlocks :
            /\ FreeListEntries(b) <= 1
            /\ FreeListEntries(b) = 1 <=>
                    /\ get_block_state(bm_pages, b) = "FREE"
                    /\ free_block_pointers.block # b

\* floor(((age - min_age) / (max_age - min_age)) * num_age_classes * 0.99999)
\* with the exact quotient
ExactAgeClass(age) ==
    ((age - min_age) * num_age_classes * 99999) \div ((max_age - min_age) * 100000)

\* C16: age classing.  For every block with min_age <= age <= max_age and
\* max_age > min_age, sort_into_age_class returns
\* floor(((age - min_age) / (max_age - min_age)) * num_age_classes * 0.99999)
\* where the ratio is the exact quotient, and the returned class is strictly
\* less than num_age_classes.
C16_AgeClass ==
    \A b \in BMBlocks :
        (/\ min_age <= erases_done[b]
         /\ erases_done[b] <= max_age
         /\ max_age > min_age) =>
            /\ sort_into_age_class(BMState, b).klass = ExactAgeClass(erases_done[b])
            /\ sort_into_age_class(BMState, b).klass < num_age_classes

\* die j of channel i has frontier pages remaining and a non-busy register
Qualifies(i, j) == die_pointers[i][j] < BLOCK_SIZE /\ ~register_busy[i][j]

\* the later of the channel's and the die's finish time
FinishTime(i, j) ==
    IF channel_finish_time[i] > die_finish_time[i][j]
    THEN channel_finish_time[i] ELSE die_finish_time[i][j]

\* C17: die selection.  get_free_die_with_shortest_IO_queue returns the
\* append frontier of a die whose max(channel finish time, die finish time)
\* is minimal among all dies that have frontier pages remaining and a
\* non-busy register; when no die qualifies it returns an address with
\* granularity NONE.
C17_DieSelection ==
    selected # NotCalled =>
        IF \E i \in Channels, j \in Dies : Qualifies(i, j)
        THEN /\ selected.valid = "PAGE"
             /\ selected.package \in Channels
             /\ selected.die \in Dies
             /\ Qualifies(selected.package, selected.die)
             /\ selected.page = die_pointers[selected.package][selected.die]
             /\ \A i \in Channels, j \in Dies :
                    Qualifies(i, j) =>
                        FinishTime(selected.package, selected.die) <= FinishTime(i, j)
        ELSE selected.valid = "NONE"

\* a die was selected although a die that does not qualify would finish
\* earlier and another qualifying die would finish later
C17_Witness ==
    /\ selected.valid = "PAGE"
    /\ \E i \in Channels, j \in Dies :
            /\ ~Qualifies(i, j)
            /\ FinishTime(i, j) < FinishTime(selected.package, selected.die)
    /\ \E i \in Channels, j \in Dies :
            /\ Qualifies(i, j)
            /\ FinishTime(i, j) > FinishTime(selected.package, selected.die)

\* C18: whenever switch_sequential(L) executes during write routing, the
\* sequential log block it promotes is owned by L (sequential_logical_address
\* = L before the call) and all BLOCK_SIZE pages of that block are VALID, so
\* that afterwards data_list[L] points at a fully populated in-order copy of
\* logical block L.
C18_SwitchPromotesFullOwnedBlock ==
    [][(calls' = calls + 1 /\ last'.op = "route" /\ last'.switches >= 1) =>
            LET L == LogicalBlockOf(last'.la)
            IN  /\ sequential_logical_address = L
                /\ \A i \in Offsets :
                        pstate[BlockOf(sequential_address)][i] = "VALID"
                /\ data_list'[L] = sequential_address
                /\ \A i \in Offsets :
                        pdata[BlockOf(sequential_address)][i] = L * BLOCK_SIZE + i
      ]_<<ftlVars, bmVars, dieVars>>

\* read source of page i of a merge for logical block L, as C19 states it
MergeSource(L, i) ==
    IF pstate[BlockOf(sequential_address + i)][PageOf(sequential_address + i)] = "VALID"
    THEN sequential_address + i
    ELSE IF data_list[L] # Unmapped THEN data_list[L] + i ELSE NoAddress

MergedOffsets(L) == {i \in Offsets : MergeSource(L, i) # NoAddress}

\* a routing step that called merge_sequential while the log had an owner
MergeStep ==
    /\ calls' = calls + 1
    /\ last'.op = "route"
    /\ last'.merges >= 1
    /\ sequential_logical_address # Unmapped

\* block b was handed to manager.invalidate by the step: it waits for its
\* erase with every page INVALID, or the erase was already inserted and the
\* block is free again or in use as the next sequential block
InvalidatedByStep(b) ==
    \/ b \in invalid_list' /\ \A i \in Offsets : pstate'[b][i] = "INVALID"
    \/ invalid_list' = {} /\ (b \in free_list' \/ b = BlockOf(sequential_address'))

\* C19: merge_sequential(L) with an existing sequential owner chains, for each
\* page offset i, a READ followed by a WRITE to page i of the fresh block D',
\* reading the sequential block's page i if it is VALID, otherwise
\* data_list[L] + i if data_list[L] is mapped, and nothing for i otherwise;
\* afterwards the old sequential block and the old data block (if any) have
\* been invalidated and data_list[L] = D'.
C19_MergeSequentialChain ==
    [][MergeStep =>
            LET L == LogicalBlockOf(last'.la)
                newDataBlock == get_free_block(FtlState)
            IN  /\ Len(chain') = 2 * Cardinality(MergedOffsets(L))
                /\ \A i \in MergedOffsets(L) :
                        LET k == Cardinality({j \in MergedOffsets(L) : j < i})
                        IN  /\ chain'[2 * k + 1].type = "READ"
                            /\ chain'[2 * k + 1].address = MergeSource(L, i)
                            /\ chain'[2 * k + 2].type = "WRITE"
                            /\ chain'[2 * k + 2].address = newDataBlock + i
                            /\ chain'[2 * k + 2].payload = MergeSource(L, i)
                /\ InvalidatedByStep(BlockOf(sequential_address))
                /\ data_list[L] # Unmapped => InvalidatedByStep(BlockOf(data_list[L]))
                /\ data_list'[L] = newDataBlock
      ]_<<ftlVars, bmVars, dieVars>>

\* a merge has chained a page read from the sequential block and a page read
\* from the old data block
C19_Witness ==
    /\ boot
    /\ last.op = "route"
    /\ last.merges = 1
    /\ \E m, n \in DOMAIN chain :
            /\ chain[m].type = "READ"
            /\ chain[n].type = "READ"
            /\ BlockOf(chain[m].address) # BlockOf(chain[n].address)

\* C20: a merge of the sequential log block merges it with the data block of
\* the log's own owner.  Whenever write routing invokes merge_sequential
\* while sequential_logical_address = S (S not the sentinel), the only
\* data_list entry that changes is data_list[S]; an offset-0 write to a
\* logical block L different from S does not install S's log pages as the
\* data block of L.  Stated for the behaviours in which the constructor left
\* the sentinel in sequential_logical_address.
C20_MergeChangesOwnerOnly ==
    [][(boot /\ MergeStep /\ sequential_logical_address \in LBAs) =>
            \A l \in LBAs \ {sequential_logical_address} :
                data_list'[l] = data_list[l]
      ]_<<ftlVars, bmVars, dieVars>>

\* read source of page i of a random merge for logical block L, as C21 states
\* it: slot i of the log block, else the data block, else none
RandomSource(L, i) ==
    IF log_map[L].pages[i] # Unmapped
    THEN log_map[L].address + log_map[L].pages[i]
    ELSE IF data_list[L] # Unmapped THEN data_list[L] + i ELSE NoAddress

RandomMergedOffsets(L) == {i \in Offsets : RandomSource(L, i) # NoAddress}

\* C21: random_merge(logBlock, L): for each page offset i independently, the
\* chained READ's source is the log block's slot pages[i] if pages[i] is not
\* the empty sentinel, otherwise data_list[L] + i if data_list[L] is mapped,
\* otherwise nothing is chained for i; afterwards data_list[L] is the fresh
\* block, L has no entry in log_map, and the result is true.
C21_RandomMergeSources ==
    [][(calls' = calls + 1 /\ last'.op = "random_merge") =>
            LET L == LogicalBlockOf(last'.la)
                newDataBlock == get_free_block(FtlState)
            IN  /\ Len(chain') = 2 * Cardinality(RandomMergedOffsets(L))
                /\ \A i \in RandomMergedOffsets(L) :
                        LET k == Cardinality({j \in RandomMergedOffsets(L) : j < i})
                        IN  /\ chain'[2 * k + 1].type = "READ"
                            /\ chain'[2 * k + 1].address = RandomSource(L, i)
                            /\ chain'[2 * k + 2].type = "WRITE"
                            /\ chain'[2 * k + 2].address = newDataBlock + i
                /\ data_list'[L] = newDataBlock
                /\ L \notin DOMAIN log_map'
                /\ last'.status = "TRUE"
      ]_<<ftlVars, bmVars, dieVars>>

\* the migration writes that arrive with the step
ArrivingGCWrites == {e \in in_flight' \ in_flight : e.gc}

\* C22: migrate(block): for every page i of the victim that is VALID, and for
\* no other page, exactly one dependent pair (READ of (victim, i), then WRITE)
\* is scheduled, and num_available_pages_for_new_writes is reduced by the
\* victim's valid-page count; the WRITE of a pair carries replace_address =
\* (victim, i), is_gc_op = true and the logical address of the FTL reverse
\* map.  The first part is stated for a call of migrate on any block in any
\* reachable state, when its entry assertion holds.
C22_MigrateSchedulesValidPages ==
    [][/\ \A b \in BMBlocks :
            LET r == migrate(BMState, b)
            IN  (~bm_aborted /\ ~r.ab) =>
                    /\ \A a \in BMPages :
                            r.gq[a] - gc_writes[a] =
                                IF BlockOf(a) = b /\ bm_pages[b][PageOf(a)] = "VALID"
                                THEN 1 ELSE 0
                    /\ r.na = num_available_pages_for_new_writes
                                - Block_get_pages_valid(bm_pages, b)
       /\ \A e \in ArrivingGCWrites :
            /\ gc_writes[e.ra] > 0
            /\ gc_writes'[e.ra] = gc_writes[e.ra] - 1
            /\ e.la = get_logical_address(e.ra)
      ]_<<ftlVars, bmVars, dieVars>>

\* the write of a migration pair is in flight for a page of a block that
\* also holds an INVALID page, for which no pair was scheduled
C22_Witness ==
    /\ ~bm_aborted
    /\ \E e \in in_flight :
            /\ e.gc
            /\ e.la # Unmapped
            /\ \E p \in Offsets :
                    /\ bm_pages[BlockOf(e.ra)][p] = "INVALID"
                    /\ BaseOf(BlockOf(e.ra)) + p # e.ra
                    /\ gc_writes[BaseOf(BlockOf(e.ra)) + p] = 0

\* C23: exactly one ERASE per cycle.  For every interleaving of write
\* arrivals and write completions, a block whose invalid-page count reaches
\* BLOCK_SIZE has exactly one ERASE event scheduled for it before it is next
\* erased, even when several in-flight writes carry replace addresses in that
\* block: no block has two ERASE events outstanding, and a block whose pages
\* are all INVALID with no write to it in flight has one.
C23_OneErasePerCycle ==
    ~bm_aborted =>
        \A b \in BMBlocks :
            /\ erase_events[b] <= 1
            /\ (Block_get_pages_invalid(bm_pages, b) = BLOCK_SIZE
                    /\ \A e \in in_flight : BlockOf(e.ra) # b) => erase_events[b] = 1

\* a migration of block b is under way: a pair is scheduled for one of its
\* pages or the write of a pair is in flight
UnderMigration(b) ==
    \/ \E a \in BMPages : gc_writes[a] > 0 /\ BlockOf(a) = b
    \/ \E e \in in_flight : e.gc /\ BlockOf(e.ra) = b

\* C24: in every reachable state every block contained in a gc_candidates
\* set is ACTIVE and not fully invalid: once its invalid-page count has
\* reached BLOCK_SIZE and its ERASE is scheduled, or once it has been chosen
\* as GC victim, it is contained in no candidate set of any age class.  A
\* block whose last page was invalidated by a write that has arrived and not
\* yet completed is not counted against the claim.
C24_CandidatesAreActive ==
    ~bm_aborted =>
        \A b \in CandidateUnion :
            /\ erase_events[b] = 0
            /\ \/ get_block_state(bm_pages, b) = "ACTIVE"
               \/ \E e \in in_flight : BlockOf(e.ra) = b
            /\ ~UnderMigration(b)

\* C25: the entry assertion of migrate never fails.  Every block passed to
\* migrate by choose_gc_victim (greedy or emergency GC) or by Wear_Level is
\* neither FREE nor PARTIALLY_FREE and has a valid-page count <=
\* num_available_pages_for_new_writes at the moment of the call.
C25_MigrateAssertionHolds == failed_assertion # "migrate"

\* C26: no non-GC write completes without capacity.  For every interleaving
\* in which each non-GC write passed can_write when it was issued and several
\* such writes may be in flight at once, every call of register_write_outcome
\* for a non-GC write finds num_available_pages_for_new_writes > 0 and
\* num_free_pages > 0: the assertions in register_write_outcome never fail.
C26_WriteOutcomeHasCapacity ==
    /\ failed_assertion # "num_available_pages_for_new_writes"
    /\ failed_assertion # "num_free_pages"

====
